---- MODULE Spec2Model ----
(***************************************************************************)
(* Model of synfig's PixelFormat descriptor and colour codec               *)
(* (synfig-core/src/synfig/color/pixelformat.h): channels(),               *)
(* Color2PixelFormat(), convert_color_format() and PixelFormat2Color().    *)
(*                                                                         *)
(* A colour channel (ColorReal) is an exact rational <<num, den>>, den > 0.*)
(* Destination memory is a byte array indexed from 0; the cursors `out'    *)
(* and `in' are indices into it.                                           *)
(***************************************************************************)
EXTENDS Integers, Sequences, FiniteSets, TLC

(* ----------------------------- bounds --------------------------------- *)

\* largest pixel count w handed to convert_color_format / encoded in a row
MaxW == 2

\* input channels are the rationals n/Den
Den == 100

(* ------------------------ PixelFormat (enum) -------------------------- *)

PF_RGB       == 0
PF_GRAY      == 1
PF_A         == 2
PF_Z         == 4
PF_BGR       == 8
PF_A_START   == 16
PF_Z_START   == 32
PF_ZA        == 64
PF_A_INV     == 128
PF_Z_INV     == 256
PF_RAW_COLOR == 512 + 2
PF_A_PREMULT == 1024

\* number of descriptor bits (bits 0..10)
PF_BITS == 11

\* bit 9 of the descriptor table ("Raw Color"), on its own
RawBit == 512

\* every value of the 11-bit descriptor
PixelFormat == 0 .. (2^PF_BITS - 1)

\* the masks of the single descriptor bits
PFBits == { 2^i : i \in 0 .. (PF_BITS - 1) }

\* bit b (a mask of PFBits) is set in x
Bit(x, b) == (x \div b) % 2 = 1

\* the set of bits of every descriptor value
BitsOf == [x \in PixelFormat |-> {b \in PFBits : Bit(x, b)}]

\* #define FLAGS(x,y) (((x)&(y))==(y))
FLAGS(x, y) == BitsOf[y] \subseteq BitsOf[x]

\* operator| on PixelFormat
Or(x, y) == LET RECURSIVE Sum(_)
                Sum(S) == IF S = {} THEN 0
                          ELSE LET b == CHOOSE c \in S : TRUE IN b + Sum(S \ {b})
            IN  x + Sum(BitsOf[y] \ BitsOf[x])

\* sizeof(Color): four ColorReal (float) members
SizeofColor == 16

\* channels(x), with the channel mode tested on PF_A instead of PF_GRAY
channels_wrongflag(x) ==
    IF FLAGS(x, PF_RAW_COLOR) THEN SizeofColor
    ELSE (IF FLAGS(x, PF_A) THEN 1 ELSE 3)
         + (IF FLAGS(x, PF_A) THEN 1 ELSE 0)
         + (IF FLAGS(x, PF_Z) THEN 1 ELSE 0)

\* channels(x): number of bytes one pixel of format x takes
channels(x) ==
    IF FLAGS(x, PF_RAW_COLOR) THEN SizeofColor
    ELSE (IF FLAGS(x, PF_GRAY) THEN 1 ELSE 3)
         + (IF FLAGS(x, PF_A) THEN 1 ELSE 0)
         + (IF FLAGS(x, PF_Z) THEN 1 ELSE 0)

(* --------------------------- ColorReal -------------------------------- *)

Abs(n) == IF n < 0 THEN -n ELSE n

RECURSIVE GCD(_, _)
GCD(a, b) == IF b = 0 THEN a ELSE GCD(b, a % b)

\* a rational in lowest terms with a positive denominator
Norm(n, d) ==
    LET g == GCD(Abs(n), Abs(d))
        s == IF d < 0 THEN -1 ELSE 1
    IN  << (s * n) \div g, (s * d) \div g >>

Real(n)    == Norm(n, Den)
Zero       == << 0, 1 >>
One        == << 1, 1 >>
RLe(x, y)  == x[1] * y[2] <= y[1] * x[2]
RMin(x, y) == IF RLe(x, y) THEN x ELSE y
RMax(x, y) == IF RLe(x, y) THEN y ELSE x
RSub(x, y) == Norm(x[1] * y[2] - y[1] * x[2], x[2] * y[2])
RDiv(x, y) == Norm(x[1] * y[2], x[2] * y[1])

\* Color: four ColorReal channels
Color(r, g, b, a) == [r |-> r, g |-> g, b |-> b, a |-> a]

\* Color::alpha(): transparent black
TransparentBlack == Color(Zero, Zero, Zero, Zero)

\* Color::clamped(): every channel clamped to [0,1]
clamped(c) ==
    Color(RMax(Zero, RMin(One, c.r)), RMax(Zero, RMin(One, c.g)),
          RMax(Zero, RMin(One, c.b)), RMax(Zero, RMin(One, c.a)))

\* Color::demult_alpha(): divide R,G,B by alpha; transparent black at alpha 0
demult_alpha(c) ==
    IF c.a[1] # 0
    THEN Color(RDiv(c.r, c.a), RDiv(c.g, c.a), RDiv(c.b, c.a), c.a)
    ELSE TransparentBlack

\* Color::set_yuv(y, 0, 0): luma only, so R = G = B = y
set_yuv(c, y) == Color(y, y, y, c.a)

(* ------------------------------ Gamma --------------------------------- *)

\* a gamma curve is its exponent; Gamma::no_gamma is the identity curve
no_gamma == 1
Gammas   == {no_gamma, 2}

RECURSIVE Pow(_, _)
Pow(n, e) == IF e = 0 THEN 1 ELSE n * Pow(n, e - 1)

\* Gamma::r_F32_to_U16 / g_F32_to_U16 / b_F32_to_U16: real -> 16-bit
F32_to_U16(gamma, x) ==
    LET c == RMax(Zero, RMin(One, x))
    IN  (Pow(c[1], gamma) * 65535) \div Pow(c[2], gamma)

(* ------------------------- destination memory ------------------------- *)

\* bytes of the arena the cursors move in (room for MaxW raw pixels)
Cap == MaxW * SizeofColor

\* contents of the destination before anything is written
InitMem == [p \in 0 .. (Cap - 1) |-> (171 + 37 * p) % 256]

\* *out++ = v
Put(s, v) == [s EXCEPT !.mem = [@ EXCEPT ![s.out] = v % 256], !.out = @ + 1]

\* *out++ = ac   (the position of the alpha byte is remembered)
PutA(s, ac) == [Put(s, ac) EXCEPT !.apos = s.out]

\* ++out over a depth slot, storing into it
SkipZ_store(s) == [Put(s, 0) EXCEPT !.zpos = s.zpos \cup {s.out}]

\* ++out over a depth slot (the position of the slot is remembered)
SkipZ(s) == [s EXCEPT !.out = @ + 1, !.zpos = @ \cup {s.out}]

(* ------------------------- Color2PixelFormat -------------------------- *)

\* object representation of one ColorReal: 4 bytes, least significant first,
\* sign bit on top (numerator magnitude above the denominator)
F32Bytes(x) ==
    << x[2] % 256, (x[2] \div 256) % 256, Abs(x[1]) % 256,
       ((Abs(x[1]) \div 256) % 128) + (IF x[1] < 0 THEN 128 ELSE 0) >>

\* the ColorReal whose object representation is the 4 bytes w
F32Value(w) ==
    << (IF w[4] >= 128 THEN -1 ELSE 1) * (w[3] + 256 * (w[4] % 128)),
       w[1] + 256 * w[2] >>

\* object representation of a Color: its four channels back to back
ColorBytes(c) == F32Bytes(c.r) \o F32Bytes(c.g) \o F32Bytes(c.b) \o F32Bytes(c.a)

\* the bytes b stored at the cursor
Store(s, b) ==
    [s EXCEPT !.mem = [p \in DOMAIN s.mem |->
                          IF p >= s.out /\ p < s.out + Len(b)
                          THEN b[p - s.out + 1] ELSE s.mem[p]],
              !.out = @ + Len(b)]

\* the raw store, clamping the colour first
StoreRaw_clamped(s, color) == Store(s, ColorBytes(clamped(color)))

\* *reinterpret_cast<Color*>(out) = color; return out + sizeof(color);
StoreRaw(s, color) == Store(s, ColorBytes(color))

\* the alpha byte, scaled by 255 instead of 255.9
AlphaByte_255(color, pf) ==
    LET a  == RMax(Zero, RMin(One, color.a))
        ac == ((a[1] * 255) \div a[2]) % 256
    IN  IF FLAGS(pf, PF_A_INV) THEN 255 - ac ELSE ac

\* ac: alpha clamped to [0,1], (unsigned char)(a*255.9), 255-ac under PF_A_INV
AlphaByte(color, pf) ==
    LET a  == RMax(Zero, RMin(One, color.a))
        ac == ((a[1] * 2559) \div (a[2] * 10)) % 256
    IN  IF FLAGS(pf, PF_A_INV) THEN 255 - ac ELSE ac

\* ri, gi, bi: gamma-corrected 16-bit values, premultiplied by ac+1 if asked
ColorValues(color, pf, gamma, ac) ==
    LET ri == F32_to_U16(gamma, color.r)
        gi == F32_to_U16(gamma, color.g)
        bi == F32_to_U16(gamma, color.b)
        ai == ac + 1
    IN  IF FLAGS(pf, PF_A_PREMULT)
        THEN << (ri * ai) \div 256, (gi * ai) \div 256, (bi * ai) \div 256 >>
        ELSE << ri, gi, bi >>

\* the before-block with the alpha byte always ahead of the depth slot
PutBefore_noZA(s, pf, ac) ==
    LET s1 == IF FLAGS(pf, PF_A_START) THEN PutA(s, ac) ELSE s
    IN  IF FLAGS(pf, PF_Z_START) THEN SkipZ(s1) ELSE s1

\* put alpha and z-depth before color channels if need
PutBefore(s, pf, ac) ==
    IF FLAGS(pf, PF_ZA)
    THEN LET s1 == IF FLAGS(pf, PF_Z_START) THEN SkipZ(s) ELSE s
         IN  IF FLAGS(pf, PF_A_START) THEN PutA(s1, ac) ELSE s1
    ELSE LET s1 == IF FLAGS(pf, PF_A_START) THEN PutA(s, ac) ELSE s
         IN  IF FLAGS(pf, PF_Z_START) THEN SkipZ(s1) ELSE s1

yuv_r == 76
yuv_g == 150
yuv_b == 256 - yuv_r - yuv_g

\* put color channels
PutColor(s, pf, v) ==
    IF FLAGS(pf, PF_GRAY)
    THEN Put(s, (v[1] * yuv_r + v[2] * yuv_g + v[3] * yuv_b) \div 65536)
    ELSE IF FLAGS(pf, PF_BGR)
    THEN Put(Put(Put(s, v[3] \div 256), v[2] \div 256), v[1] \div 256)
    ELSE Put(Put(Put(s, v[1] \div 256), v[2] \div 256), v[3] \div 256)

\* put alpha and z-depth after color channels if need
PutAfter(s, pf, ac) ==
    IF FLAGS(pf, PF_ZA)
    THEN LET s1 == IF ~FLAGS(pf, PF_Z_START) /\ FLAGS(pf, PF_Z) THEN SkipZ(s) ELSE s
         IN  IF ~FLAGS(pf, PF_A_START) /\ FLAGS(pf, PF_A) THEN PutA(s1, ac) ELSE s1
    ELSE LET s1 == IF ~FLAGS(pf, PF_A_START) /\ FLAGS(pf, PF_A) THEN PutA(s, ac) ELSE s
         IN  IF ~FLAGS(pf, PF_Z_START) /\ FLAGS(pf, PF_Z) THEN SkipZ(s1) ELSE s1

\* the state of one Color2PixelFormat call: memory, cursor, and where the
\* alpha byte and the depth slots of this pixel went (apos = -1: no alpha byte)
Writer(m, o) == [mem |-> m, out |-> o, apos |-> -1, zpos |-> {}]

\* Color2PixelFormat(color, pf, out, gamma)
Color2PixelFormat(color, pf, m, o, gamma) ==
    IF FLAGS(pf, PF_RAW_COLOR)
    THEN StoreRaw(Writer(m, o), color)
    ELSE LET ac == AlphaByte(color, pf)
             v  == ColorValues(color, pf, gamma, ac)
         IN  PutAfter(PutColor(PutBefore(Writer(m, o), pf, ac), pf, v), pf, ac)

(* ------------------------- PixelFormat2Color -------------------------- *)

\* k * ColorReal(*in), k = 1.0/255.0
FromByte(b) == Norm(b, 255)

\* color.set_a(k*ColorReal(*in++))   (the position read is remembered)
GetA(t, m) == [t EXCEPT !.color = [t.color EXCEPT !.a = FromByte(m[t.in])],
                        !.in = t.in + 1, !.apos = t.in]

\* ++in over a depth slot
SkipIn(t) == [t EXCEPT !.in = @ + 1]

\* the before-block read only when the presence bits are set
GetBefore_present(t, pf, m) ==
    IF FLAGS(pf, PF_ZA)
    THEN LET t1 == IF FLAGS(pf, PF_Z_START) /\ FLAGS(pf, PF_Z) THEN SkipIn(t) ELSE t
         IN  IF FLAGS(pf, PF_A_START) /\ FLAGS(pf, PF_A) THEN GetA(t1, m) ELSE t1
    ELSE LET t1 == IF FLAGS(pf, PF_A_START) /\ FLAGS(pf, PF_A) THEN GetA(t, m) ELSE t
         IN  IF FLAGS(pf, PF_Z_START) /\ FLAGS(pf, PF_Z) THEN SkipIn(t1) ELSE t1

\* read alpha and z-depth at begin if need
GetBefore(t, pf, m) ==
    IF FLAGS(pf, PF_ZA)
    THEN LET t1 == IF FLAGS(pf, PF_Z_START) THEN SkipIn(t) ELSE t
         IN  IF FLAGS(pf, PF_A_START) THEN GetA(t1, m) ELSE t1
    ELSE LET t1 == IF FLAGS(pf, PF_A_START) THEN GetA(t, m) ELSE t
         IN  IF FLAGS(pf, PF_Z_START) THEN SkipIn(t1) ELSE t1

\* the colour block read in R,G,B order whatever PF_BGR says
GetColor_noBGR(t, pf, m) ==
    IF FLAGS(pf, PF_GRAY)
    THEN [t EXCEPT !.color = set_yuv(t.color, FromByte(m[t.in])), !.in = t.in + 1]
    ELSE [t EXCEPT !.color = Color(FromByte(m[t.in]), FromByte(m[t.in + 1]),
                                   FromByte(m[t.in + 2]), t.color.a),
                   !.in = t.in + 3]

\* read color channels
GetColor(t, pf, m) ==
    IF FLAGS(pf, PF_GRAY)
    THEN [t EXCEPT !.color = set_yuv(t.color, FromByte(m[t.in])), !.in = t.in + 1]
    ELSE IF FLAGS(pf, PF_BGR)
    THEN [t EXCEPT !.color = Color(FromByte(m[t.in + 2]), FromByte(m[t.in + 1]),
                                   FromByte(m[t.in]), t.color.a),
                   !.in = t.in + 3]
    ELSE [t EXCEPT !.color = Color(FromByte(m[t.in]), FromByte(m[t.in + 1]),
                                   FromByte(m[t.in + 2]), t.color.a),
                   !.in = t.in + 3]

\* read alpha and z-depth at end if need
GetAfter(t, pf, m) ==
    IF FLAGS(pf, PF_ZA)
    THEN LET t1 == IF ~FLAGS(pf, PF_Z_START) /\ FLAGS(pf, PF_Z) THEN SkipIn(t) ELSE t
         IN  IF ~FLAGS(pf, PF_A_START) /\ FLAGS(pf, PF_A) THEN GetA(t1, m) ELSE t1
    ELSE LET t1 == IF ~FLAGS(pf, PF_A_START) /\ FLAGS(pf, PF_A) THEN GetA(t, m) ELSE t
         IN  IF ~FLAGS(pf, PF_Z_START) /\ FLAGS(pf, PF_Z) THEN SkipIn(t1) ELSE t1

\* invert alpha, then demult alpha
PostProcess(t, pf) ==
    LET c1 == IF FLAGS(pf, PF_A_INV)
              THEN [t.color EXCEPT !.a = RSub(One, t.color.a)] ELSE t.color
        c2 == IF FLAGS(pf, PF_A_PREMULT) THEN demult_alpha(c1) ELSE c1
    IN  [t EXCEPT !.color = c2]

\* color = *reinterpret_cast<const Color*>(in); return in + sizeof(color);
LoadRaw(t, m) ==
    LET w(i) == F32Value([j \in 1 .. 4 |-> m[t.in + 4 * i + j - 1]])
    IN  [t EXCEPT !.color = Color(w(0), w(1), w(2), w(3)), !.in = t.in + SizeofColor]

\* the state of one PixelFormat2Color call: the colour object being filled,
\* the cursor, and where the alpha byte was read (apos = -1: none read)
Reader(c, i) == [color |-> c, in |-> i, apos |-> -1]

\* PixelFormat2Color with the raw path falling through to the post-process
PixelFormat2Color_rawpost(color, pf, m, i) ==
    IF FLAGS(pf, PF_RAW_COLOR)
    THEN PostProcess(LoadRaw(Reader(color, i), m), pf)
    ELSE PostProcess(GetAfter(GetColor(GetBefore(Reader(color, i), pf, m), pf, m), pf, m), pf)

\* PixelFormat2Color(color, pf, in)
PixelFormat2Color(color, pf, m, i) ==
    IF FLAGS(pf, PF_RAW_COLOR)
    THEN LoadRaw(Reader(color, i), m)
    ELSE PostProcess(GetAfter(GetColor(GetBefore(Reader(color, i), pf, m), pf, m), pf, m), pf)

(* --------------------------- state machine ---------------------------- *)

\* the colours callers pass in: the two examples of the documentation, the
\* ends of the range, a tiny and a nearly opaque alpha, and out of range
\* (overshoot, negative)
Palette ==
    << Color(One, Zero, Zero, << 1, 2 >>),
       Color(Real(Den + Den \div 2), Real(0 - Den \div 4), Real(Den \div 3), Real(2 * Den)),
       Color(<< 1, 2 >>, << 1, 4 >>, << 3, 4 >>, One),
       Color(One, One, One, One),
       Color(Real(Den - 1), Real(1), Real(Den \div 3), Real(Den \div 50)),
       Color(Real(Den \div 5), Real(Den \div 5), Real(Den \div 5), Real(Den - 1)),
       Color(Real(Den \div 4), Real(Den), Real(0), Real(0 - Den \div 2)) >>

\* w consecutive palette colours starting at the k-th
Window(k, w) == [i \in 1 .. w |-> Palette[((k + i - 2) % Len(Palette)) + 1]]

\* the rows callers encode: the full-length windows starting at every other
\* colour, every shorter row (the empty one included) of the first colours,
\* and two rows of opaque colours
Sources == { Window(k, MaxW) : k \in { i \in 1 .. Len(Palette) : i % 2 = 1 } }
               \cup { Window(1, w) : w \in 0 .. MaxW }
               \cup { << Palette[3] >>, << Palette[3], Palette[4] >> }

VARIABLES
    pf,     \* the PixelFormat of the buffer
    gamma,  \* the Gamma handed to the encoder
    src,    \* the colours to encode
    mem,    \* destination bytes
    out,    \* write cursor
    in,     \* read cursor
    color,  \* the Color object PixelFormat2Color fills
    enc,    \* per encoded pixel: cursor before/after, alpha and depth positions
    dec     \* per decoded pixel: cursor before/after, alpha position, colour

vars == << pf, gamma, src, mem, out, in, color, enc, dec >>

Init ==
    /\ pf \in PixelFormat
    /\ gamma \in Gammas
    /\ src \in Sources
    /\ mem = InitMem
    /\ out = 0
    /\ in = 0
    /\ color = TransparentBlack
    /\ enc = << >>
    /\ dec = << >>

\* the destination as the encoder calls leave it: memory, cursor, and the
\* record of every pixel written
Dest(m, o, l) == [mem |-> m, out |-> o, log |-> l]

\* dest = Color2PixelFormat(c, f, dest, g), and its record
Call(d, c, f, g) ==
    LET s == Color2PixelFormat(c, f, d.mem, d.out, g)
    IN  Dest(s.mem, s.out,
             Append(d.log, [from |-> d.out, to |-> s.out, apos |-> s.apos,
                            zpos |-> s.zpos, color |-> c]))

\* while (w--) dest = Color2PixelFormat((*(src++)).clamped(), pf, dest, gamma);
\* return dest;
RECURSIVE convert_color_format(_, _, _, _, _)
convert_color_format(d, colors, w, f, g) ==
    IF w = 0 THEN d
    ELSE convert_color_format(Call(d, clamped(Head(colors)), f, g), Tail(colors), w - 1, f, g)

\* the colours not yet encoded
Rest == SubSeq(src, Len(enc) + 1, Len(src))

\* out = Color2PixelFormat(src[i], pf, out, gamma), called on the next colour
Encode ==
    /\ Rest # << >>
    /\ \E d \in {Call(Dest(mem, out, enc), Head(Rest), pf, gamma)} :
           /\ mem' = d.mem
           /\ out' = d.out
           /\ enc' = d.log
    /\ UNCHANGED << pf, gamma, src, in, color, dec >>

\* out = convert_color_format(out, src + i, w, pf, gamma) on the w colours
\* of the row not yet encoded (w = 0 once the row is done)
Convert ==
    /\ dec = << >>
    /\ \E d \in {convert_color_format(Dest(mem, out, enc), Rest, Len(Rest), pf, gamma)} :
           /\ mem' = d.mem
           /\ out' = d.out
           /\ enc' = d.log
    /\ UNCHANGED << pf, gamma, src, in, color, dec >>

\* in = PixelFormat2Color(color, pf, in), once the row is encoded
Decode ==
    /\ Len(enc) = Len(src)
    /\ Len(dec) < Len(enc)
    /\ \E t \in {PixelFormat2Color(color, pf, mem, in)} :
           /\ color' = t.color
           /\ in' = t.in
           /\ dec' = Append(dec, [from |-> in, to |-> t.in, apos |-> t.apos,
                                  color |-> t.color])
    /\ UNCHANGED << pf, gamma, src, mem, out, enc >>

Next == Encode \/ Convert \/ Decode

Spec == Init /\ [][Next]_vars

TypeOK ==
    /\ pf \in PixelFormat
    /\ out \in 0 .. Cap
    /\ in \in 0 .. Cap
    /\ \A p \in DOMAIN mem : mem[p] \in 0 .. 255

(* ------------------------------ helpers ------------------------------- *)

Raw      == FLAGS(pf, PF_RAW_COLOR)
Encoded_ == 1 .. Len(enc)
Decoded  == 1 .. Len(dec)

\* every channel of c lies in [0,1]
InRange(c) == \A x \in {c.r, c.g, c.b, c.a} : RLe(Zero, x) /\ RLe(x, One)

\* |x - y| <= 1/255: one quantization step
Within(x, y) == 255 * Abs(x[1] * y[2] - y[1] * x[2]) <= x[2] * y[2]

(* ------------------------------- C3 ----------------------------------- *)

\* C3: channels() is monotonic in the alpha and depth bits: for every
\* descriptor value, adding PF_A or PF_Z never lowers the channel count.
C3_ChannelsMonotonic ==
    /\ channels(Or(pf, PF_A)) >= channels(pf)
    /\ channels(Or(pf, PF_Z)) >= channels(pf)

\* a format with bit 9 but no alpha (4 bytes), which adding PF_A turns raw
C3_Witness ==
    /\ pf = RawBit + PF_Z
    /\ channels(pf) = 4
    /\ Or(pf, PF_A) = PF_RAW_COLOR + PF_Z
    /\ channels(Or(pf, PF_A)) = SizeofColor
    /\ Len(enc) = MaxW

(* ------------------------------- C2 ----------------------------------- *)

\* C2: under PF_RAW_COLOR the decoded colour is identical to the colour
\* handed to Color2PixelFormat, whatever the gamma and however far out of
\* range its channels are.
C2_RawRoundTrip ==
    \A j \in Decoded :
        Raw => /\ dec[j].color = enc[j].color
               /\ (~InRange(src[j]) => dec[j].color \in {src[j], clamped(src[j])})

\* an out-of-range colour went through the raw path under a non-identity gamma
C2_Witness ==
    /\ Raw
    /\ gamma # no_gamma
    /\ Len(dec) >= 1
    /\ ~InRange(src[1])
    /\ dec[1].color = src[1]

(* ------------------------------- C1 ----------------------------------- *)

\* the luma the gray byte stands for: (yuv_r*R + yuv_g*G + yuv_b*B) / 256
Luma(c) ==
    LET l == c.r[2] * c.g[2] * c.b[2]
    IN  Norm(yuv_r * c.r[1] * (l \div c.r[2]) + yuv_g * c.g[1] * (l \div c.g[2])
                 + yuv_b * c.b[1] * (l \div c.b[2]),
             256 * l)

\* the case of C1 and C5: identity gamma, a non-raw format, a colour in [0,1]
RoundTripCase(j) == gamma = no_gamma /\ ~Raw /\ InRange(enc[j].color)

\* the channels format pf represents come back within one step: alpha when
\* an alpha byte is stored; R, G, B under an RGB/BGR format; under PF_GRAY
\* the one gray level (R = G = B), which stands for the colour's luma
Reproduced(j) ==
    /\ enc[j].apos # -1 => Within(dec[j].color.a, enc[j].color.a)
    /\ ~FLAGS(pf, PF_GRAY) =>
           /\ Within(dec[j].color.r, enc[j].color.r)
           /\ Within(dec[j].color.g, enc[j].color.g)
           /\ Within(dec[j].color.b, enc[j].color.b)
    /\ FLAGS(pf, PF_GRAY) =>
           /\ dec[j].color.r = dec[j].color.g
           /\ dec[j].color.g = dec[j].color.b
           /\ Within(dec[j].color.r, Luma(enc[j].color))

\* C1 as stated: for every non-raw format, identity gamma and colour in
\* [0,1], every channel the format represents is reproduced within 1/255.
C1_AsStated == \A j \in Decoded : RoundTripCase(j) => Reproduced(j)

\* C1 (amended): for every non-raw format without PF_A_PREMULT, identity
\* gamma and colour in [0,1], every channel the format represents is
\* reproduced within 1/255 (alpha when an alpha byte is stored; R, G, B;
\* under PF_GRAY the luma (76 R + 150 G + 30 B) / 256 as R = G = B).
C1_RoundTrip ==
    \A j \in Decoded :
        (RoundTripCase(j) /\ ~FLAGS(pf, PF_A_PREMULT)) => Reproduced(j)

\* a BGR format with alpha round-tripped a colour with R # B, with loss
C1_Witness ==
    /\ Len(dec) = MaxW
    /\ RoundTripCase(1)
    /\ FLAGS(pf, PF_A) /\ FLAGS(pf, PF_BGR)
    /\ ~FLAGS(pf, PF_GRAY) /\ ~FLAGS(pf, PF_A_PREMULT)
    /\ enc[1].color.r # enc[1].color.b
    /\ dec[1].color # enc[1].color
    /\ Within(dec[1].color.b, enc[1].color.b)

(* ------------------------------- C5 ----------------------------------- *)

\* C5: under a non-raw format with alpha and PF_A_PREMULT (PF_A_INV or not),
\* identity gamma, a colour in [0,1] with alpha > 0: the decoded R, G, B are
\* within 1/255 of the colour's unpremultiplied R, G, B.
C5_PremultRoundTrip ==
    \A j \in Decoded :
        (RoundTripCase(j) /\ FLAGS(pf, PF_A) /\ FLAGS(pf, PF_A_PREMULT)
            /\ enc[j].color.a[1] > 0) =>
            /\ Within(dec[j].color.r, enc[j].color.r)
            /\ Within(dec[j].color.g, enc[j].color.g)
            /\ Within(dec[j].color.b, enc[j].color.b)

\* rows of fully opaque colours, encoded in the formats that keep R, G, B
InitOpaque ==
    /\ Init
    /\ ~FLAGS(pf, PF_GRAY)
    /\ src # << >>
    /\ \A i \in 1 .. Len(src) : src[i].a = One

SpecOpaque == InitOpaque /\ [][Next]_vars

\* under SpecOpaque the round trip of C5 loses nothing to alpha: it fails
\* only where PF_A_INV is set
C5_OpaqueNoInv ==
    \A j \in Decoded :
        (RoundTripCase(j) /\ FLAGS(pf, PF_A) /\ FLAGS(pf, PF_A_PREMULT)
            /\ ~FLAGS(pf, PF_A_INV)) =>
            /\ Within(dec[j].color.r, enc[j].color.r)
            /\ Within(dec[j].color.g, enc[j].color.g)
            /\ Within(dec[j].color.b, enc[j].color.b)

(* ------------------------------- C6 ----------------------------------- *)

\* C6: every Color2PixelFormat call advances the cursor by channels(pf), so
\* a row of N pixels ends at N * channels(pf) and no byte at or beyond that
\* offset is touched.
C6_TightlyPacked ==
    /\ \A j \in Encoded_ : enc[j].to = enc[j].from + channels(pf)
    /\ Len(enc) = Len(src) => out = Len(src) * channels(pf)
    /\ \A p \in DOMAIN mem : p >= Len(src) * channels(pf) => mem[p] = InitMem[p]

(* ------------------------------- C9 ----------------------------------- *)

\* C9: Color2PixelFormat never stores into a depth slot: under a non-raw
\* format with a depth slot the cursor passes over one byte per slot and
\* that byte keeps the value the buffer had before.
C9_DepthUntouched ==
    \A j \in Encoded_ :
        ~Raw =>
            /\ \A p \in enc[j].zpos :
                   /\ p >= enc[j].from /\ p < enc[j].to
                   /\ mem[p] = InitMem[p]
            /\ (FLAGS(pf, PF_Z) \/ FLAGS(pf, PF_Z_START)) => enc[j].zpos # {}
            /\ enc[j].to - enc[j].from
                   = (IF FLAGS(pf, PF_GRAY) THEN 1 ELSE 3)
                     + (IF enc[j].apos = -1 THEN 0 ELSE 1)
                     + Cardinality(enc[j].zpos)

\* a whole row was converted into a format with a depth slot
C9_Witness ==
    /\ ~Raw
    /\ FLAGS(pf, PF_Z)
    /\ Len(enc) = MaxW
    /\ \A j \in Encoded_ : enc[j].zpos # {}

(* ------------------------------- C10 ---------------------------------- *)

\* C10: for every descriptor value PixelFormat2Color starts and ends each
\* pixel where Color2PixelFormat did, and reads the alpha byte at the
\* offset at which it was written.
C10_Aligned ==
    \A j \in Decoded :
        /\ dec[j].from = enc[j].from
        /\ dec[j].to = enc[j].to
        /\ dec[j].apos = enc[j].apos

\* a row in a malformed format (start bits without presence bits) was decoded
C10_Witness ==
    /\ FLAGS(pf, PF_A_START) /\ ~FLAGS(pf, PF_A)
    /\ FLAGS(pf, PF_Z_START) /\ ~FLAGS(pf, PF_Z)
    /\ Len(dec) = MaxW
    /\ dec[MaxW].apos # -1
    /\ dec[MaxW].to = in

(* ------------------------------- C4 ----------------------------------- *)

\* what the calls made so far would have done under format f: every pixel
\* encoded has the cursor advance and the bytes f gives, every pixel decoded
\* the colour and the cursor advance f gives
SameAs(f) ==
    /\ \A j \in Encoded_ :
           \E s \in {Color2PixelFormat(enc[j].color, f, InitMem, enc[j].from, gamma)} :
               /\ s.out = enc[j].to
               /\ \A p \in enc[j].from .. (enc[j].to - 1) : mem[p] = s.mem[p]
    /\ \A j \in Decoded :
           \E t \in {PixelFormat2Color(TransparentBlack, f, mem, dec[j].from)} :
               /\ t.color = dec[j].color
               /\ t.in = dec[j].to

\* C4 as stated: a format with the raw-color bit (bit 9) set has
\* channels() = sizeof(Color) and encodes and decodes exactly as any other
\* format with that bit set, whatever its other bits (alpha included).
C4_AsStated ==
    Bit(pf, RawBit) =>
        /\ channels(pf) = SizeofColor
        /\ SameAs(PF_RAW_COLOR)
        /\ SameAs(RawBit)

\* C4 (amended): a format with PF_RAW_COLOR set (bit 9 together with the
\* alpha bit) has channels() = sizeof(Color) and encodes and decodes exactly
\* as PF_RAW_COLOR itself, whatever its remaining bits.
C4_RawIgnoresOtherBits ==
    Raw =>
        /\ channels(pf) = SizeofColor
        /\ SameAs(PF_RAW_COLOR)
        /\ \A j \in Encoded_ : enc[j].to = enc[j].from + SizeofColor
        /\ \A j \in Decoded : dec[j].to = dec[j].from + SizeofColor

\* a row went through a raw format with every other bit set
C4_Witness ==
    /\ pf = 2^PF_BITS - 1
    /\ Raw
    /\ Len(dec) = MaxW
    /\ dec[MaxW].color = enc[MaxW].color

(* ------------------------------- C7 ----------------------------------- *)

\* the bytes of one pixel by name: "A" alpha, "Z" depth slot, "Y" gray,
\* "R", "G", "B"
Block(za, a, z) ==
    IF za THEN (IF z THEN << "Z" >> ELSE << >>) \o (IF a THEN << "A" >> ELSE << >>)
    ELSE (IF a THEN << "A" >> ELSE << >>) \o (IF z THEN << "Z" >> ELSE << >>)

Layout(f) ==
    Block(FLAGS(f, PF_ZA), FLAGS(f, PF_A_START), FLAGS(f, PF_Z_START))
    \o (IF FLAGS(f, PF_GRAY) THEN << "Y" >>
        ELSE IF FLAGS(f, PF_BGR) THEN << "B", "G", "R" >> ELSE << "R", "G", "B" >>)
    \o Block(FLAGS(f, PF_ZA), FLAGS(f, PF_A) /\ ~FLAGS(f, PF_A_START),
             FLAGS(f, PF_Z) /\ ~FLAGS(f, PF_Z_START))

\* the value of the byte named n, given the alpha byte ac and the 16-bit
\* colour values v
ByteOf(n, ac, v) ==
    CASE n = "A" -> ac
      [] n = "R" -> (v[1] \div 256) % 256
      [] n = "G" -> (v[2] \div 256) % 256
      [] n = "B" -> (v[3] \div 256) % 256
      [] n = "Y" -> ((v[1] * yuv_r + v[2] * yuv_g + v[3] * yuv_b) \div 65536) % 256
      [] n = "Z" -> -1

\* the pixel at offset o, with its alpha position and depth slots, is laid
\* out as l and holds the bytes of colour c
LaidOut(l, e) ==
    \E ac \in {AlphaByte(e.color, pf)} :
    \E v \in {ColorValues(e.color, pf, gamma, ac)} :
        /\ e.to - e.from = Len(l)
        /\ \A k \in 1 .. Len(l) :
               /\ (l[k] = "Z") = (e.from + k - 1 \in e.zpos)
               /\ (l[k] = "A") = (e.from + k - 1 = e.apos)
               /\ l[k] # "Z" => mem[e.from + k - 1] = ByteOf(l[k], ac, v)

\* C7: under a non-raw format one pixel is the before-block (alpha and/or
\* depth with their START bit), the colour block (gray, or R,G,B, or B,G,R
\* under PF_BGR), the after-block (alpha/depth present and not placed
\* before); in a block depth precedes alpha exactly under PF_ZA.
\* RGB|A|A_START on (1,0,0,0.5) gives (alpha, R, G, B).
C7_Layout ==
    ~Raw =>
        \E l \in {Layout(pf)} :
        \A j \in Encoded_ :
            /\ LaidOut(l, enc[j])
            /\ (pf = PF_A + PF_A_START /\ gamma = no_gamma
                    /\ enc[j].color = Color(One, Zero, Zero, << 1, 2 >>)) =>
                   [k \in 1 .. 4 |-> mem[enc[j].from + k - 1]] = << 127, 255, 0, 0 >>

\* both alpha and depth went before the colour block, depth first
C7_Witness ==
    /\ pf = PF_BGR + PF_A + PF_Z + PF_A_START + PF_Z_START + PF_ZA
    /\ Len(enc) = MaxW
    /\ Layout(pf) = << "Z", "A", "B", "G", "R" >>
    /\ enc[1].zpos = {0}
    /\ enc[1].apos = 1

\* the example of the documentation: RGB|A|A_START on (1,0,0,0.5)
C7_Example ==
    /\ pf = PF_A + PF_A_START
    /\ gamma = no_gamma
    /\ Len(enc) >= 1
    /\ enc[1].color = Color(One, Zero, Zero, << 1, 2 >>)
    /\ [k \in 1 .. 4 |-> mem[k - 1]] = << 127, 255, 0, 0 >>

(* ------------------------------- C8 ----------------------------------- *)

\* the colour's alpha clamped to [0,1]
ClampedAlpha(c) == RMax(Zero, RMin(One, c.a))

\* b is a * 255.9 truncated to an integer
Trunc2559(a, b) ==
    b * 10 * a[2] <= a[1] * 2559 /\ a[1] * 2559 < (b + 1) * 10 * a[2]

\* b is a * 255.9 rounded to the nearest integer k, as an 8-bit value
Round2559(a, b) ==
    \E k \in {b, b + 256} :
        /\ (2 * k - 1) * 10 * a[2] <= 2 * a[1] * 2559
        /\ 2 * a[1] * 2559 < (2 * k + 1) * 10 * a[2]

\* the stored alpha byte of every encoded pixel is what `scaled' makes of
\* the clamped alpha, or 255 minus it under PF_A_INV
AlphaByteIs(scaled(_, _)) ==
    \A j \in Encoded_ :
        (~Raw /\ enc[j].apos # -1) =>
            scaled(ClampedAlpha(enc[j].color),
                   IF FLAGS(pf, PF_A_INV) THEN 255 - mem[enc[j].apos]
                   ELSE mem[enc[j].apos])

\* C8 as stated: the alpha byte is round(a' * 255.9) as an 8-bit value.
C8_AsStated == AlphaByteIs(Round2559)

\* C8 (amended): the alpha byte is a' * 255.9 truncated to an integer (not
\* rounded), a' the alpha clamped to [0,1], or 255 minus that under
\* PF_A_INV; alpha 1.0 gives 255 and alpha 0.0 gives 0 when PF_A_INV is clear.
C8_AlphaTruncated ==
    /\ AlphaByteIs(Trunc2559)
    /\ \A j \in Encoded_ :
           (~Raw /\ enc[j].apos # -1 /\ ~FLAGS(pf, PF_A_INV)) =>
               /\ RLe(One, enc[j].color.a) => mem[enc[j].apos] = 255
               /\ RLe(enc[j].color.a, Zero) => mem[enc[j].apos] = 0

\* alpha 0.5 was stored as 127 (127.95 truncated), an alpha above 1 as 255
C8_Witness ==
    /\ ~Raw /\ ~FLAGS(pf, PF_A_INV)
    /\ Len(enc) = MaxW
    /\ \E j \in Encoded_ :
           /\ enc[j].color.a = << 1, 2 >>
           /\ enc[j].apos # -1
           /\ mem[enc[j].apos] = 127
    /\ \E j \in Encoded_ :
           /\ ~RLe(enc[j].color.a, One)
           /\ enc[j].apos # -1
           /\ mem[enc[j].apos] = 255

====
